---- MODULE Spec2Model ----
(***************************************************************************)
(* Model of src/src/app.py: the FitnessTracker object (user_info,          *)
(* workouts, daily_workouts), its methods, and the Flask routes that call  *)
(* it on the process-wide tracker instance.                                *)
(*                                                                         *)
(* Representation                                                          *)
(*   - Python text is a sequence of one-character strings.                 *)
(*   - A dynamically typed argument is a record [t, n, s]: t is the        *)
(*     Python type ("None", "int", "float", "str"), n the number, s the    *)
(*     text.  Floats are restricted to integral values; calories, BMI and  *)
(*     BMR are kept as exact fixed-point integers (see the Unit            *)
(*     definitions) instead of IEEE doubles.                               *)
(*   - Entry dicts and lists are objects with identity: `heap` maps an    *)
(*     entry id to its fields and `lists` a list id to the entry ids the   *)
(*     list holds.  A dict value that is a list is the list's id, so that  *)
(*     dict.copy() (a shallow copy) is a dict with the same list ids, and  *)
(*     the same entry object is shared by workouts, daily_workouts and     *)
(*     the value add_workout returns.                                      *)
(*   - A dict is a sequence of [k, v] items in insertion order.            *)
(***************************************************************************)
EXTENDS Integers, Sequences, FiniteSets, TLC

VARIABLES
    user_info,       \* self.user_info: <<>> (empty dict) or the profile record
    workouts,        \* self.workouts: dict category -> list object
    daily_workouts,  \* self.daily_workouts: dict iso date -> dict category -> list object
    heap,            \* entry dict objects: id -> fields
    lists,           \* list objects: id -> the entry ids the list holds
    clock,           \* the day of the latest reading of the wall clock (January 2025)
    snap,            \* the dict the caller got from its last get_workouts()
    mutations,       \* how many times the caller has changed what get_workouts() gave it
    out              \* the last call and what it returned / raised / flashed

vars == <<user_info, workouts, daily_workouts, heap, lists, clock, snap, mutations, out>>

---------------------------------------------------------------------------
(* Bounds of the model *)

MaxEntries == 2      \* entry objects ever created
MaxDay == 2          \* the clock stops advancing at this day
MaxMutations == 1    \* changes the caller makes to the dicts get_workouts() gave it

---------------------------------------------------------------------------
(* Python values *)

PyNone == [t |-> "None", n |-> 0, s |-> <<>>]
PyInt(i) == [t |-> "int", n |-> i, s |-> <<>>]
PyFloat(i) == [t |-> "float", n |-> i, s |-> <<>>]
PyStr(chars) == [t |-> "str", n |-> 0, s |-> chars]

\* bool(x): None, 0, 0.0 and "" are falsy
Truthy(x) ==
    CASE x.t = "None" -> FALSE
      [] x.t = "str" -> Len(x.s) > 0
      [] OTHER -> x.n # 0

\* isinstance(x, int)
IsInstanceInt(x) == x.t = "int"

Digits == <<"0", "1", "2", "3", "4", "5", "6", "7", "8", "9">>
IsDigit(c) == \E i \in 1..10 : Digits[i] = c
DigitVal(c) == (CHOOSE i \in 1..10 : Digits[i] = c) - 1
IsSpace(c) == c \in {" ", "\t", "\n"}

RECURSIVE LStrip(_)
LStrip(s) == IF s # <<>> /\ IsSpace(Head(s)) THEN LStrip(Tail(s)) ELSE s

RECURSIVE RStrip(_)
RStrip(s) ==
    IF s # <<>> /\ IsSpace(s[Len(s)]) THEN RStrip(SubSeq(s, 1, Len(s) - 1)) ELSE s

\* str.strip()
Strip(s) == LStrip(RStrip(s))

RECURSIVE DigitsValue(_)
DigitsValue(s) ==
    IF s = <<>> THEN 0 ELSE 10 * DigitsValue(SubSeq(s, 1, Len(s) - 1)) + DigitVal(s[Len(s)])

AllDigits(s) == s # <<>> /\ \A i \in 1..Len(s) : IsDigit(s[i])

\* int(text): surrounding whitespace, an optional sign, decimal digits
ParseInt(s) ==
    LET b == Strip(s)
        neg == b # <<>> /\ Head(b) = "-"
        d == IF b # <<>> /\ Head(b) \in {"-", "+"} THEN Tail(b) ELSE b
    IN  IF AllDigits(d)
        THEN [exc |-> "", n |-> IF neg THEN 0 - DigitsValue(d) ELSE DigitsValue(d)]
        ELSE [exc |-> "ValueError", n |-> 0]

\* float(text), for the integral numerals of the model: like ParseInt, with an
\* optional "." followed by zeros
RECURSIVE DropTrailingZeros(_)
DropTrailingZeros(s) ==
    IF s # <<>> /\ s[Len(s)] = "0" THEN DropTrailingZeros(SubSeq(s, 1, Len(s) - 1)) ELSE s

ParseFloat(s) ==
    LET b == Strip(s)
        z == DropTrailingZeros(b)
        hasPoint == \E i \in 1..Len(b) : b[i] = "."
        m == IF hasPoint /\ z # <<>> /\ z[Len(z)] = "." THEN SubSeq(z, 1, Len(z) - 1) ELSE b
    IN  ParseInt(m)

\* int(x)
IntOf(x) ==
    CASE x.t = "None" -> [exc |-> "TypeError", n |-> 0]
      [] x.t = "str" -> ParseInt(x.s)
      [] OTHER -> [exc |-> "", n |-> x.n]

\* float(x)
FloatOf(x) ==
    CASE x.t = "None" -> [exc |-> "TypeError", n |-> 0]
      [] x.t = "str" -> ParseFloat(x.s)
      [] OTHER -> [exc |-> "", n |-> x.n]

\* str(n) for an integer
RECURSIVE NatToStr(_)
NatToStr(n) ==
    IF n < 10 THEN <<Digits[n + 1]>> ELSE NatToStr(n \div 10) \o <<Digits[(n % 10) + 1]>>

IntToStr(n) == IF n < 0 THEN <<"-">> \o NatToStr(0 - n) ELSE NatToStr(n)

\* str.upper(), for the letters the model uses
UpperChar(c) ==
    CASE c = "m" -> "M"
      [] c = "f" -> "F"
      [] c = "x" -> "X"
      [] OTHER -> c

Upper(s) == [i \in 1..Len(s) |-> UpperChar(s[i])]

---------------------------------------------------------------------------
(* Python dicts: items [k, v] in insertion order *)

DictKeys(d) == {d[i].k : i \in DOMAIN d}
HasKey(d, key) == \E i \in DOMAIN d : d[i].k = key
DictGet(d, key) == d[CHOOSE i \in DOMAIN d : d[i].k = key].v
DictSet(d, key, val) ==
    IF HasKey(d, key)
    THEN [i \in DOMAIN d |-> IF d[i].k = key THEN [k |-> key, v |-> val] ELSE d[i]]
    ELSE Append(d, [k |-> key, v |-> val])

---------------------------------------------------------------------------
(* Program constants *)

\* MET_VALUES, doubled so that 2.5 is an integer
MetTwice(category) ==
    CASE category = "Warm-up" -> 6
      [] category = "Workout" -> 12
      [] category = "Cool-down" -> 5
      [] OTHER -> 10

DefaultWeight == 70
WeeklyCalGoal == 2000

\* calories are counted in 1/CaloriesUnit kcal:
\*   met * 3.5 * weight / 200 = (MetTwice / 2) * (7 / 2) * weight / 200
CaloriesUnit == 800
\* BMR is counted in 1/BmrUnit kcal/day (6.25 * height), BMI in 1/BmiUnit
BmrUnit == 4
BmiUnit == 100

\* the form field that is absent: request.form.get('category') is None
NoneKey == "<None>"

---------------------------------------------------------------------------
(* The clock *)

TwoDigits(n) == IF n < 10 THEN <<"0">> \o NatToStr(n) ELSE NatToStr(n)

\* date.isoformat() / strftime("%Y-%m-%d"); the model's days are those of
\* January 2025
IsoDate(day) == <<"2", "0", "2", "5", "-", "0", "1", "-">> \o TwoDigits(day)

\* datetime.now().strftime("%Y-%m-%d %H:%M:%S"); only the date varies
Timestamp(day) == IsoDate(day) \o <<" ", "1", "2", ":", "0", "0", ":", "0", "0">>

\* text.split()[0]: the first whitespace-separated word
RECURSIVE FirstWord(_)
FirstWord(s) ==
    LET b == LStrip(s)
    IN  IF b = <<>> \/ IsSpace(Head(b)) THEN <<>>
        ELSE <<Head(b)>> \o (IF Len(b) > 1 /\ ~IsSpace(b[2]) THEN FirstWord(Tail(b)) ELSE <<>>)

\* what a reading of the clock can give when the reading before it gave `day`
LaterDays(day) == {d \in {day, day + 1} : d <= MaxDay}

---------------------------------------------------------------------------
(* FitnessTracker *)

\* the literal {"Warm-up": [], "Workout": [], "Cool-down": []}, its three new
\* lists being the objects base+1 .. base+3
CategoryDict(base) ==
    << [k |-> "Warm-up", v |-> base + 1],
       [k |-> "Workout", v |-> base + 2],
       [k |-> "Cool-down", v |-> base + 3] >>

ThreeEmptyLists == << <<>>, <<>>, <<>> >>

\* InitWorkouts with a key misspelt
InitWorkoutsMisspelt ==
    << [k |-> "Warm-up", v |-> 1], [k |-> "Workout", v |-> 2], [k |-> "Cooldown", v |-> 3] >>

\* __init__
InitUserInfo == <<>>
InitWorkouts == CategoryDict(0)
InitDailyWorkouts == <<>>

\* a call and its outcome as seen by the caller: the arguments, the exception
\* that escaped ("" for none), its message or the flashed message, the flash
\* category ("" when nothing is flashed) and the value returned or rendered
Out(op, args, exc, msg, flash, val) ==
    [op |-> op, args |-> args, exc |-> exc, msg |-> msg, flash |-> flash, val |-> val]

NoArgs == [none |-> TRUE]
NoVal == [none |-> TRUE]

\* WeightOf with the profile ignored
WeightOfDefaultOnly(info) == DefaultWeight

\* self.user_info.get("weight", 70)
WeightOf(info) == IF info = <<>> THEN DefaultWeight ELSE info.weight

\* (met * 3.5 * weight / 200) * duration, in 1/CaloriesUnit kcal
Calories(category, weight, duration) == MetTwice(category) * 7 * weight * duration

\* AddWorkoutError with the category checked before the duration
AddWorkoutErrorCategoryFirst(w, category, exercise, duration) ==
    IF ~Truthy(exercise) \/ duration.t = "None"
    THEN [exc |-> "ValueError", msg |-> "Exercise and duration are required."]
    ELSE IF ~HasKey(w, category)
    THEN [exc |-> "ValueError",
          msg |-> "Invalid category. Must be Warm-up, Workout, or Cool-down."]
    ELSE IF ~IsInstanceInt(duration) \/ duration.n <= 0
    THEN [exc |-> "ValueError", msg |-> "Duration must be a positive integer."]
    ELSE [exc |-> "", msg |-> ""]

\* the validation of add_workout (lines 74-79): the exception it raises, "" for none
AddWorkoutError(w, category, exercise, duration) ==
    IF ~Truthy(exercise) \/ duration.t = "None"
    THEN [exc |-> "ValueError", msg |-> "Exercise and duration are required."]
    ELSE IF ~IsInstanceInt(duration) \/ duration.n <= 0
    THEN [exc |-> "ValueError", msg |-> "Duration must be a positive integer."]
    ELSE IF ~HasKey(w, category)
    THEN [exc |-> "ValueError",
          msg |-> "Invalid category. Must be Warm-up, Workout, or Cool-down."]
    ELSE [exc |-> "", msg |-> ""]

\* the entry dict add_workout builds (lines 82-91)
NewEntry(info, category, exercise, duration, now) ==
    [exercise |-> exercise.s,
     duration |-> duration.n,
     calories |-> Calories(category, WeightOf(info), duration.n),
     timestamp |-> Timestamp(now)]

\* ListAppend inserting at the front: some_list.insert(0, id)
ListInsertFront(ls, list, id) == [ls EXCEPT ![list] = <<id>> \o @]

\* some_list.append(id)
ListAppend(ls, list, id) == [ls EXCEPT ![list] = Append(@, id)]

\* self.workouts[category].append(entry)
StoreAppend(ls, w, category, id) == ListAppend(ls, DictGet(w, category), id)

\* DailyAppend without the test of line 97: the bucket of today is made anew
\* on every call
DailyAppendNewBucket(ls, dw, today_iso, category, id) ==
    LET dw1 == DictSet(dw, today_iso, CategoryDict(Len(ls)))
        ls1 == ls \o ThreeEmptyLists
    IN  [daily |-> dw1, lists |-> [ls1 EXCEPT ![DictGet(DictGet(dw1, today_iso), category)] =
                                       Append(@, id)]]

\* lines 96-99: the bucket of today, created with three new empty lists when
\* the date is new; gives the daily dict and the list objects after the append
DailyAppend(ls, dw, today_iso, category, id) ==
    LET fresh == ~HasKey(dw, today_iso)
        dw1 == IF fresh THEN Append(dw, [k |-> today_iso, v |-> CategoryDict(Len(ls))]) ELSE dw
        ls1 == IF fresh THEN ls \o ThreeEmptyLists ELSE ls
    IN  [daily |-> dw1, lists |-> StoreAppend(ls1, DictGet(dw1, today_iso), category, id)]

\* AddWorkoutCall with the duration validated after the entry is stored
AddWorkoutCallLateCheck(category, exercise, duration, now, today) ==
    LET err == AddWorkoutError(workouts, category, exercise, duration)
        id == Len(heap) + 1
        stored == HasKey(workouts, category)
                  /\ err.msg \in {"", "Duration must be a positive integer."}
    IN  IF ~stored
        THEN [exc |-> err.exc, msg |-> err.msg, ret |-> NoVal,
              daily |-> daily_workouts, lists |-> lists, heap |-> heap]
        ELSE LET d == DailyAppend(StoreAppend(lists, workouts, category, id), daily_workouts,
                                  IsoDate(today), category, id)
             IN  [exc |-> err.exc, msg |-> err.msg,
                  ret |-> IF err.exc = "" THEN [entry |-> id] ELSE NoVal,
                  daily |-> d.daily, lists |-> d.lists,
                  heap |-> Append(heap, NewEntry(user_info, category, exercise, duration, now))]

\* add_workout as a whole: `now` is the clock read by datetime.now(), `today`
\* the one read by date.today() a few statements later
AddWorkoutCall(category, exercise, duration, now, today) ==
    LET err == AddWorkoutError(workouts, category, exercise, duration)
        id == Len(heap) + 1
        d == DailyAppend(StoreAppend(lists, workouts, category, id), daily_workouts,
                         IsoDate(today), category, id)
    IN  IF err.exc # ""
        THEN [exc |-> err.exc, msg |-> err.msg, ret |-> NoVal,
              daily |-> daily_workouts, lists |-> lists, heap |-> heap]
        ELSE [exc |-> "", msg |-> "", ret |-> [entry |-> id],
              daily |-> d.daily, lists |-> d.lists,
              heap |-> Append(heap, NewEntry(user_info, category, exercise, duration, now))]

\* the validation and arithmetic of save_user_info (lines 35-66): the exception
\* raised ("" for none) and the dict assigned to self.user_info
SaveUserInfoCall(name, regn_id, age, gender, height_cm, weight_kg) ==
    LET a == IntOf(age)
        h == FloatOf(height_cm)
        w == FloatOf(weight_kg)
        g == Upper(gender.s)
        none == [exc |-> "", msg |-> "", info |-> <<>>]
    IN  IF ~(Truthy(name) /\ Truthy(regn_id) /\ Truthy(age) /\ Truthy(gender)
             /\ Truthy(height_cm) /\ Truthy(weight_kg))
        THEN [none EXCEPT !.exc = "ValueError", !.msg = "All user info fields are required."]
        ELSE IF a.exc # ""
        THEN [none EXCEPT !.exc = "ValueError", !.msg = "Invalid input: int() failed"]
        ELSE IF h.exc # "" \/ w.exc # ""
        THEN [none EXCEPT !.exc = "ValueError", !.msg = "Invalid input: float() failed"]
        ELSE IF g \notin {<<"M">>, <<"F">>}
        THEN [none EXCEPT !.exc = "ValueError", !.msg = "Invalid input: Gender must be M or F"]
        ELSE IF h.n = 0
        THEN [none EXCEPT !.exc = "ZeroDivisionError", !.msg = "float division by zero"]
        ELSE [none EXCEPT !.info =
                [name |-> name.s,
                 regn_id |-> regn_id.s,
                 age |-> a.n,
                 gender |-> g,
                 height |-> h.n,
                 weight |-> w.n,
                 bmi |-> (BmiUnit * 10000 * w.n) \div (h.n * h.n),
                 bmr |-> IF g = <<"M">>
                         THEN 10 * BmrUnit * w.n + 25 * h.n - 5 * BmrUnit * a.n + 5 * BmrUnit
                         ELSE 10 * BmrUnit * w.n + 25 * h.n - 5 * BmrUnit * a.n - 161 * BmrUnit,
                 weekly_cal_goal |-> WeeklyCalGoal]]

\* sum(entry[field] for entry in sessions)
RECURSIVE SumField(_, _, _)
SumField(hp, ids, field) ==
    IF ids = <<>> THEN 0 ELSE hp[Head(ids)][field] + SumField(hp, Tail(ids), field)

\* SummaryLoop with total_time assigned (=) where the code adds (+=)
RECURSIVE SummaryLoopAssigns(_, _, _, _)
SummaryLoopAssigns(w, ls, hp, n) ==
    IF n = 0
    THEN [total_time |-> 0, total_calories |-> 0, category_totals |-> <<>>]
    ELSE LET acc == SummaryLoopAssigns(w, ls, hp, n - 1)
             sessions == ls[w[n].v]
             cat_time == SumField(hp, sessions, "duration")
             cat_calories == SumField(hp, sessions, "calories")
         IN  [total_time |-> cat_time,
              total_calories |-> acc.total_calories + cat_calories,
              category_totals |->
                  Append(acc.category_totals,
                         [k |-> w[n].k,
                          v |-> [time |-> cat_time, calories |-> cat_calories,
                                 sessions |-> Len(sessions)]])]

\* the loop of get_workout_summary over the first n items of self.workouts
RECURSIVE SummaryLoop(_, _, _, _)
SummaryLoop(w, ls, hp, n) ==
    IF n = 0
    THEN [total_time |-> 0, total_calories |-> 0, category_totals |-> <<>>]
    ELSE LET acc == SummaryLoop(w, ls, hp, n - 1)
             sessions == ls[w[n].v]
             cat_time == SumField(hp, sessions, "duration")
             cat_calories == SumField(hp, sessions, "calories")
         IN  [total_time |-> acc.total_time + cat_time,
              total_calories |-> acc.total_calories + cat_calories,
              category_totals |->
                  Append(acc.category_totals,
                         [k |-> w[n].k,
                          v |-> [time |-> cat_time, calories |-> cat_calories,
                                 sessions |-> Len(sessions)]])]

\* get_workout_summary
GetWorkoutSummary(w, ls, hp) == SummaryLoop(w, ls, hp, Len(w))

\* get_workouts: self.workouts.copy(), a new dict holding the same list objects
GetWorkouts(w) == [i \in DOMAIN w |-> [k |-> w[i].k, v |-> w[i].v]]

\* get_user_info: self.user_info.copy(); every field is an immutable value
GetUserInfo(info) == info

---------------------------------------------------------------------------
(* Number and text formatting *)

\* the integer nearest to num / den, ties to the even one
RoundHalfEven(num, den) ==
    LET q == num \div den
        r == num % den
    IN  IF 2 * r > den \/ (2 * r = den /\ q % 2 = 1) THEN q + 1 ELSE q

\* f"{x:.1f}" for x = num / unit
Format1f(num, unit) ==
    LET tenths == RoundHalfEven(10 * num, unit)
        mag == IF tenths < 0 THEN 0 - tenths ELSE tenths
    IN  (IF tenths < 0 THEN <<"-">> ELSE <<>>)
        \o NatToStr(mag \div 10) \o <<".">> \o NatToStr(mag % 10)

\* f"{x:.0f}" for x = num / unit
Format0f(num, unit) == IntToStr(RoundHalfEven(num, unit))

\* text.replace(' ', '_')
ReplaceSpaces(s) == [i \in 1..Len(s) |-> IF s[i] = " " THEN "_" ELSE s[i]]

---------------------------------------------------------------------------
(* export_pdf *)

TableHeader == <<"Category", "Exercise", "Duration(min)", "Calories(kcal)", "Date">>

\* TableRow with the whole timestamp in the date column
TableRowWholeTimestamp(cat, entry) ==
    <<cat, entry.exercise, IntToStr(entry.duration),
      Format1f(entry.calories, CaloriesUnit), entry.timestamp>>

\* one table row of an entry (lines 264-270)
TableRow(cat, entry) ==
    <<cat, entry.exercise, IntToStr(entry.duration),
      Format1f(entry.calories, CaloriesUnit), FirstWord(entry.timestamp)>>

\* the rows of the entries of one category
RECURSIVE CategoryRows(_, _, _)
CategoryRows(cat, hp, ids) ==
    IF ids = <<>> THEN <<>>
    ELSE <<TableRow(cat, hp[Head(ids)])>> \o CategoryRows(cat, hp, Tail(ids))

\* table_data after the loops over the first n items of tracker.workouts
RECURSIVE TableData(_, _, _, _)
TableData(w, ls, hp, n) ==
    IF n = 0 THEN <<TableHeader>>
    ELSE TableData(w, ls, hp, n - 1) \o CategoryRows(w[n].k, hp, ls[w[n].v])

\* what the canvas holds when c.save() is reached (lines 242-281)
PdfReport(info, w, ls, hp) ==
    LET table_data == TableData(w, ls, hp, Len(w))
    IN  [filename |-> ReplaceSpaces(info.name)
                      \o <<"_", "w", "e", "e", "k", "l", "y", "_", "r", "e", "p", "o", "r", "t",
                           ".", "p", "d", "f">>,
         title |-> info.name,
         header |-> [regn_id |-> info.regn_id, age |-> IntToStr(info.age),
                     gender |-> info.gender, height |-> info.height, weight |-> info.weight,
                     bmi |-> Format1f(info.bmi, BmiUnit), bmr |-> Format0f(info.bmr, BmrUnit)],
         table |-> IF Len(table_data) > 1 THEN table_data ELSE <<>>,
         note |-> IF Len(table_data) > 1 THEN "" ELSE "No workouts recorded yet."]

---------------------------------------------------------------------------
(* Inputs: the calls the model makes *)

RunText == <<"R", "u", "n">>
NameText == <<"A", " ", "B">>
RegnText == <<"R", "1">>
AbcText == <<"a", "b", "c">>

AddArgs(category, exercise, duration) ==
    [category |-> category, exercise |-> exercise, duration |-> duration]

\* tracker.add_workout(category, exercise, duration): the accepted calls ...
ValidAddArgs ==
    {AddArgs("Warm-up", PyStr(RunText), PyInt(29)),
     AddArgs("Workout", PyStr(RunText), PyInt(30)),
     AddArgs("Cool-down", PyStr(RunText), PyInt(29))}

\* ... and calls with one or several invalid arguments
InvalidAddArgs ==
    {AddArgs("Workout", PyStr(<<>>), PyInt(30)),
     AddArgs("Workout", PyStr(RunText), PyNone),
     AddArgs("Workout", PyStr(RunText), PyStr(AbcText)),
     AddArgs("Workout", PyStr(RunText), PyInt(0)),
     AddArgs("Workout", PyStr(RunText), PyInt(0 - 5)),
     AddArgs("Bogus", PyStr(RunText), PyInt(30)),
     AddArgs("Bogus", PyStr(<<>>), PyStr(AbcText)),
     AddArgs("Bogus", PyStr(RunText), PyFloat(30)),
     AddArgs("Bogus", PyStr(RunText), PyInt(0))}

SaveArgs(name, regn_id, age, gender, height_cm, weight_kg) ==
    [name |-> name, regn_id |-> regn_id, age |-> age, gender |-> gender,
     height_cm |-> height_cm, weight_kg |-> weight_kg]

\* tracker.save_user_info(...): the accepted calls and the rejected ones
ValidSaveArgs ==
    {SaveArgs(PyStr(NameText), PyStr(RegnText), PyInt(25), PyStr(<<"m">>), PyFloat(180),
              PyFloat(80)),
     SaveArgs(PyStr(NameText), PyStr(RegnText), PyStr(<<"3", "0">>), PyStr(<<"F">>),
              PyInt(165), PyFloat(70))}

InvalidSaveArgs ==
    {SaveArgs(PyStr(<<>>), PyStr(RegnText), PyInt(25), PyStr(<<"M">>), PyFloat(180), PyFloat(80)),
     SaveArgs(PyStr(NameText), PyStr(RegnText), PyStr(AbcText), PyStr(<<"M">>), PyFloat(180),
              PyFloat(80)),
     SaveArgs(PyStr(NameText), PyStr(RegnText), PyInt(25), PyStr(<<"M">>), PyFloat(180),
              PyStr(<<"k", "g">>)),
     SaveArgs(PyStr(NameText), PyStr(RegnText), PyInt(25), PyStr(<<"x">>), PyFloat(180),
              PyFloat(80)),
     SaveArgs(PyStr(NameText), PyStr(RegnText), PyInt(25), PyStr(<<"M">>), PyStr(<<"0">>),
              PyFloat(80))}

\* POST /add_workout: the form fields as text; an absent 'category' reads as
\* None, an absent text field as ''
AddForm(category, exercise, duration) ==
    [category_field |-> category, exercise_field |-> exercise, duration_field |-> duration]

ValidAddForms ==
    {AddForm("Warm-up", <<" ">> \o RunText \o <<" ">>, <<"2", "9">>),
     AddForm("Workout", RunText, <<" ", "3", "0">>),
     AddForm("Cool-down", RunText, <<"2", "9">>)}

InvalidAddForms ==
    {AddForm("Workout", <<" ">>, <<"3", "0">>),
     AddForm("Workout", RunText, <<>>),
     AddForm("Workout", RunText, AbcText),
     AddForm("Workout", RunText, <<"-", "5">>),
     AddForm("Bogus", RunText, <<"3", "0">>),
     AddForm(NoneKey, RunText, <<"3", "0">>)}

\* POST /save_user_info: the form fields as text
SaveForm(name, regn_id, age, gender, height, weight) ==
    [name_field |-> name, regn_id_field |-> regn_id, age_field |-> age,
     gender_field |-> gender, height_field |-> height, weight_field |-> weight]

ValidSaveForms ==
    {SaveForm(<<" ">> \o NameText, RegnText, <<"2", "5">>, <<"m">>, <<"1", "8", "0">>,
              <<" ", "8", "0", ".", "0">>),
     SaveForm(NameText, RegnText, <<"3", "0">>, <<"f">>, <<"1", "6", "5">>, <<"7", "0">>)}

InvalidSaveForms ==
    {SaveForm(<<" ">>, RegnText, <<"2", "5">>, <<"m">>, <<"1", "8", "0">>, <<"8", "0">>),
     SaveForm(NameText, RegnText, AbcText, <<"m">>, <<"1", "8", "0">>, <<"8", "0">>),
     SaveForm(NameText, RegnText, <<"2", "5">>, <<"m">>, <<"1", "8", "0">>, <<"k", "g">>),
     SaveForm(NameText, RegnText, <<"2", "5">>, <<"x">>, <<"1", "8", "0">>, <<"8", "0">>),
     SaveForm(NameText, RegnText, <<"2", "5">>, <<"m">>, <<"0">>, <<"8", "0">>)}

---------------------------------------------------------------------------
(* Actions *)

Init ==
    /\ user_info = InitUserInfo
    /\ workouts = InitWorkouts
    /\ daily_workouts = InitDailyWorkouts
    /\ heap = <<>>
    /\ lists = ThreeEmptyLists
    /\ clock = 1
    /\ snap = <<>>
    /\ mutations = 0
    /\ out = Out("init", NoArgs, "", "", "", NoVal)

\* tracker.add_workout(category, exercise, duration), called directly; days may
\* have passed since the call before, and midnight may pass between the two
\* reads of the clock (a call that raises reads no clock)
AddWorkout ==
    \E a \in ValidAddArgs \cup InvalidAddArgs, now \in LaterDays(clock) :
      \E today \in LaterDays(now) :
        LET r == AddWorkoutCall(a.category, a.exercise, a.duration, now, today)
        IN  /\ IF r.exc = "" THEN Len(heap) < MaxEntries ELSE now = clock /\ today = clock
            /\ daily_workouts' = r.daily
            /\ lists' = r.lists
            /\ heap' = r.heap
            /\ clock' = today
            /\ out' = Out("add_workout", a, r.exc, r.msg, "", r.ret)
            /\ UNCHANGED <<user_info, workouts, snap, mutations>>

\* tracker.save_user_info(...), called directly
SaveUserInfo ==
    \E a \in ValidSaveArgs \cup InvalidSaveArgs :
        LET r == SaveUserInfoCall(a.name, a.regn_id, a.age, a.gender, a.height_cm, a.weight_kg)
        IN  /\ user_info' = IF r.exc = "" THEN r.info ELSE user_info
            /\ out' = Out("save_user_info", a, r.exc, r.msg, "",
                          IF r.exc = "" THEN [ret |-> TRUE] ELSE NoVal)
            /\ UNCHANGED <<workouts, daily_workouts, heap, lists, clock, snap, mutations>>

\* tracker.get_workout_summary()
CallGetWorkoutSummary ==
    /\ out' = Out("get_workout_summary", NoArgs, "", "", "",
                  GetWorkoutSummary(workouts, lists, heap))
    /\ UNCHANGED <<user_info, workouts, daily_workouts, heap, lists, clock, snap, mutations>>

\* POST /save_user_info: every outcome is flashed, then redirected to /
RouteSaveUserInfo ==
    \E f \in ValidSaveForms \cup InvalidSaveForms :
        LET r == SaveUserInfoCall(PyStr(Strip(f.name_field)), PyStr(Strip(f.regn_id_field)),
                                  PyStr(Strip(f.age_field)), PyStr(Strip(f.gender_field)),
                                  PyStr(Strip(f.height_field)), PyStr(Strip(f.weight_field)))
        IN  /\ user_info' = IF r.exc = "" THEN r.info ELSE user_info
            /\ out' =
                 CASE r.exc = "" ->
                        Out("route_save_user_info", f, "", "User info saved!", "success",
                            [bmi |-> Format1f(r.info.bmi, BmiUnit),
                             bmr |-> Format0f(r.info.bmr, BmrUnit)])
                   [] r.exc = "ValueError" ->
                        Out("route_save_user_info", f, "", r.msg, "danger", NoVal)
                   [] OTHER ->
                        Out("route_save_user_info", f, "", "Error saving user info", "danger",
                            [error |-> r.msg])
            /\ UNCHANGED <<workouts, daily_workouts, heap, lists, clock, snap, mutations>>

\* POST /add_workout: every outcome is flashed, then redirected to /
RouteAddWorkout ==
    \E f \in ValidAddForms \cup InvalidAddForms, now \in LaterDays(clock) :
      \E today \in LaterDays(now) :
        LET exercise == Strip(f.exercise_field)
            duration_str == Strip(f.duration_field)
            missing == exercise = <<>> \/ duration_str = <<>>
            duration == ParseInt(duration_str)
            called == ~missing /\ duration.exc = ""
            r == AddWorkoutCall(f.category_field, PyStr(exercise), PyInt(duration.n), now, today)
            added == called /\ r.exc = ""
        IN  /\ IF added THEN Len(heap) < MaxEntries ELSE now = clock /\ today = clock
            /\ daily_workouts' = IF called THEN r.daily ELSE daily_workouts
            /\ lists' = IF called THEN r.lists ELSE lists
            /\ heap' = IF called THEN r.heap ELSE heap
            /\ clock' = today
            /\ out' =
                 CASE missing ->
                        Out("route_add_workout", f, "",
                            "Please enter both exercise and duration.", "danger", NoVal)
                   [] ~missing /\ duration.exc # "" ->
                        Out("route_add_workout", f, "", "invalid literal for int()", "danger",
                            NoVal)
                   [] called /\ r.exc # "" ->
                        Out("route_add_workout", f, "", r.msg, "danger", NoVal)
                   [] OTHER ->
                        Out("route_add_workout", f, "", "Added", "success",
                            [exercise |-> exercise, duration |-> IntToStr(duration.n),
                             category |-> f.category_field,
                             calories |-> Format1f(r.heap[r.ret.entry].calories, CaloriesUnit)])
            /\ UNCHANGED <<user_info, workouts, snap, mutations>>

\* GET /export_pdf: refused without a profile; otherwise the report is written
\* and sent, unless writing the file raises (then the error is flashed)
RouteExportPdf ==
    /\ \/ /\ user_info = <<>>
          /\ out' = Out("export_pdf", NoArgs, "", "Please save user info first!", "danger",
                        NoVal)
       \/ /\ user_info # <<>>
          /\ out' = Out("export_pdf", NoArgs, "", "", "",
                        PdfReport(user_info, workouts, lists, heap))
       \/ /\ user_info # <<>>
          /\ out' = Out("export_pdf", NoArgs, "", "Error generating PDF", "danger", NoVal)
    /\ UNCHANGED <<user_info, workouts, daily_workouts, heap, lists, clock, snap, mutations>>

Next ==
    \/ AddWorkout
    \/ SaveUserInfo
    \/ CallGetWorkoutSummary
    \/ RouteSaveUserInfo
    \/ RouteAddWorkout
    \/ RouteExportPdf

Spec == Init /\ [][Next]_vars

---------------------------------------------------------------------------
(* A caller that changes the dict get_workouts() gave it *)

\* workouts1 = tracker.get_workouts(): the caller keeps the dict it is given
CallGetWorkouts ==
    /\ snap' = GetWorkouts(workouts)
    /\ out' = Out("get_workouts", NoArgs, "", "", "", NoVal)
    /\ UNCHANGED <<user_info, workouts, daily_workouts, heap, lists, clock, mutations>>

\* workouts1["NewCategory"] = []
CallerAddKey ==
    /\ snap # <<>>
    /\ ~HasKey(snap, "NewCategory")
    /\ snap' = DictSet(snap, "NewCategory", Len(lists) + 1)
    /\ lists' = Append(lists, <<>>)
    /\ out' = Out("caller_add_key", NoArgs, "", "", "", NoVal)
    /\ UNCHANGED <<user_info, workouts, daily_workouts, heap, clock>>
    /\ mutations < MaxMutations
    /\ mutations' = mutations + 1

\* workouts1[key].append({...}): a new entry object of the caller's making
CallerAppend ==
    \E i \in DOMAIN snap :
        /\ Len(heap) < MaxEntries
        /\ heap' = Append(heap, [exercise |-> <<"X">>, duration |-> 1, calories |-> 0,
                                 timestamp |-> Timestamp(clock)])
        /\ lists' = ListAppend(lists, snap[i].v, Len(heap) + 1)
        /\ out' = Out("caller_append", NoArgs, "", "", "", NoVal)
        /\ UNCHANGED <<user_info, workouts, daily_workouts, clock, snap>>
        /\ mutations < MaxMutations
        /\ mutations' = mutations + 1

\* workouts1[key].pop()
CallerRemove ==
    \E i \in DOMAIN snap :
        /\ lists[snap[i].v] # <<>>
        /\ lists' = [lists EXCEPT ![snap[i].v] = SubSeq(@, 1, Len(@) - 1)]
        /\ out' = Out("caller_remove", NoArgs, "", "", "", NoVal)
        /\ UNCHANGED <<user_info, workouts, daily_workouts, heap, clock, snap>>
        /\ mutations < MaxMutations
        /\ mutations' = mutations + 1

\* workouts1[key][j]["duration"] = 1
CallerEdit ==
    \E i \in DOMAIN snap :
        \E j \in DOMAIN lists[snap[i].v] :
            /\ heap' = [heap EXCEPT ![lists[snap[i].v][j]].duration = 1]
            /\ out' = Out("caller_edit", NoArgs, "", "", "", NoVal)
            /\ UNCHANGED <<user_info, workouts, daily_workouts, lists, clock, snap>>
            /\ mutations < MaxMutations
            /\ mutations' = mutations + 1

NextCaller ==
    \/ AddWorkout
    \/ CallGetWorkouts
    \/ CallGetWorkoutSummary
    \/ CallerAddKey
    \/ CallerAppend
    \/ CallerRemove
    \/ CallerEdit

SpecCaller == Init /\ [][NextCaller]_vars

---------------------------------------------------------------------------
(* The store by value, and how a call ended *)

\* the entry dicts a list holds
Entries(hp, ids) == [j \in DOMAIN ids |-> hp[ids[j]]]

\* what a reader of self.workouts sees: category -> the entries, by value
StoreView(w, ls, hp) == [i \in DOMAIN w |-> [k |-> w[i].k, v |-> Entries(hp, ls[w[i].v])]]

\* the sum of a sequence of numbers
RECURSIVE SeqSum(_)
SeqSum(q) == IF q = <<>> THEN 0 ELSE SeqSum(SubSeq(q, 1, Len(q) - 1)) + q[Len(q)]

ThreeCategories == <<"Warm-up", "Workout", "Cool-down">>

DirectOps == {"add_workout", "save_user_info"}
RouteOps == {"route_add_workout", "route_save_user_info"}
CallerOps == {"caller_add_key", "caller_append", "caller_remove", "caller_edit"}

\* the call raised (direct call) or flashed an error (route)
Failed(o) ==
    \/ o.op \in DirectOps /\ o.exc # ""
    \/ o.op \in RouteOps /\ o.flash = "danger"

\* the call was made with arguments the model lists as invalid
InvalidCall(o) ==
    \/ o.op = "add_workout" /\ o.args \in InvalidAddArgs
    \/ o.op = "save_user_info" /\ o.args \in InvalidSaveArgs
    \/ o.op = "route_add_workout" /\ o.args \in InvalidAddForms
    \/ o.op = "route_save_user_info" /\ o.args \in InvalidSaveForms

\* add_workout stored an entry
AddSucceeded(o) ==
    \/ o.op = "add_workout" /\ o.exc = ""
    \/ o.op = "route_add_workout" /\ o.flash = "success"

ArgCategory(o) == IF o.op = "add_workout" THEN o.args.category ELSE o.args.category_field

---------------------------------------------------------------------------
(* C1 *)

\* C1 (as claimed): whatever a caller does to a dict it got from get_workouts()
\* (a new key, an append to or a removal from one of its lists, an edit of one
\* of its entries), the store and the summary stay what they were.
C1_SnapshotIsIndependent ==
    [][out'.op \in CallerOps =>
         /\ StoreView(workouts', lists', heap') = StoreView(workouts, lists, heap)
         /\ GetWorkoutSummary(workouts', lists', heap') = GetWorkoutSummary(workouts, lists, heap)
      ]_vars

---------------------------------------------------------------------------
(* C2 *)

\* C2: a call of add_workout or save_user_info that fails, directly or through
\* its route, leaves user_info, workouts, daily_workouts and every list and
\* entry as they were and reports a reason; every invalid call of the model
\* fails; no exception escapes a route.
C2_FailureLeavesStateUnchanged ==
    [][/\ InvalidCall(out') => Failed(out')
       /\ out'.op \in RouteOps => out'.exc = ""
       /\ Failed(out') =>
            /\ user_info' = user_info
            /\ workouts' = workouts
            /\ daily_workouts' = daily_workouts
            /\ lists' = lists
            /\ heap' = heap
            /\ out'.msg # ""
      ]_vars

\* a route has rejected a submission when entries and a profile are stored
C2_Witness ==
    /\ out.op = "route_add_workout"
    /\ Failed(out)
    /\ heap # <<>>
    /\ user_info # <<>>

---------------------------------------------------------------------------
(* C3 *)

\* C3: a successful add_workout appends the one new entry object at the end of
\* the list of its category, whose earlier entries keep place and content, and
\* leaves the lists of the two other categories as they were.
C3_AddAppendsToItsCategory ==
    [][AddSucceeded(out') =>
         /\ workouts' = workouts
         /\ Len(heap') = Len(heap) + 1
         /\ \A id \in DOMAIN heap : heap'[id] = heap[id]
         /\ out'.op = "add_workout" =>
              /\ heap'[Len(heap')].exercise = out'.args.exercise.s
              /\ heap'[Len(heap')].duration = out'.args.duration.n
         /\ \A i \in DOMAIN workouts :
              LET before == lists[workouts[i].v]
                  after == lists'[workouts[i].v]
              IN  IF workouts[i].k = ArgCategory(out')
                  THEN /\ Len(after) = Len(before) + 1
                       /\ SubSeq(after, 1, Len(before)) = before
                       /\ after[Len(after)] = Len(heap')
                  ELSE after = before
      ]_vars

\* an entry has just been added to a category that already held one
C3_Witness ==
    /\ AddSucceeded(out)
    /\ Len(lists[DictGet(workouts, ArgCategory(out))]) = 2

---------------------------------------------------------------------------
(* C4 *)

\* C4: in the summary, total_time is the sum of the per-category times, each
\* per-category time is the sum of the durations of the entries stored in that
\* category, and each sessions count is the number of those entries.
C4_SummaryTotals ==
    out.op = "get_workout_summary" =>
        LET totals == out.val.category_totals
        IN  /\ Len(totals) = Len(workouts)
            /\ out.val.total_time = SeqSum([i \in DOMAIN totals |-> totals[i].v.time])
            /\ \A i \in DOMAIN totals :
                 LET stored == Entries(heap, lists[workouts[i].v])
                 IN  /\ totals[i].k = workouts[i].k
                     /\ totals[i].v.time = SeqSum([j \in DOMAIN stored |-> stored[j].duration])
                     /\ totals[i].v.sessions = Len(stored)

\* a summary of a store with entries in two categories and one empty category
C4_Witness ==
    /\ out.op = "get_workout_summary"
    /\ out.val.total_time = 59
    /\ \E i \in DOMAIN out.val.category_totals : out.val.category_totals[i].v.sessions = 0

---------------------------------------------------------------------------
(* C5 *)

\* C5: in every reachable state self.workouts has exactly the keys Warm-up,
\* Workout and Cool-down.
C5_ExactlyThreeKeys ==
    /\ Len(workouts) = 3
    /\ DictKeys(workouts) = {"Warm-up", "Workout", "Cool-down"}

\* an add with an unknown category has just been rejected, after an entry was
\* stored and a profile saved
C5_Witness ==
    /\ out.op = "add_workout"
    /\ out.args.category = "Bogus"
    /\ out.exc # ""
    /\ heap # <<>>
    /\ user_info # <<>>

---------------------------------------------------------------------------
(* C6 *)

\* why a call of add_workout is rejected, the causes taken in the claim's order
Cause(a) ==
    IF ~Truthy(a.exercise) \/ a.duration = PyNone THEN "required"
    ELSE IF a.duration.t # "int" THEN "not_integer"
    ELSE IF a.duration.n <= 0 THEN "not_positive"
    ELSE IF a.category \notin {"Warm-up", "Workout", "Cool-down"} THEN "invalid_category"
    ELSE "none"

---------------------------------------------------------------------------
(* C7 *)

\* the three bands of the claim
Tier(total_time) ==
    IF total_time < 30 THEN "starting"
    ELSE IF total_time < 60 THEN "consistent"
    ELSE "excellent"

\* C7 (as claimed): the summary carries a motivational tier, which is the band
\* of its total_time.
C7_SummaryCarriesTier ==
    out.op = "get_workout_summary" =>
        /\ "motivational_tier" \in DOMAIN out.val
        /\ out.val.motivational_tier = Tier(out.val.total_time)

---------------------------------------------------------------------------
(* C8 *)

\* the rows the claim asks for: one per stored entry, category by category
ExpectedRows ==
    LET rows(cat) ==
            LET stored == Entries(heap, lists[DictGet(workouts, cat)])
            IN  [j \in DOMAIN stored |->
                    <<cat, stored[j].exercise, IntToStr(stored[j].duration),
                      Format1f(stored[j].calories, CaloriesUnit),
                      SubSeq(stored[j].timestamp, 1, 10)>>]
    IN  rows("Warm-up") \o rows("Workout") \o rows("Cool-down")

IsReport(o) == o.flash = "" /\ "table" \in DOMAIN o.val

\* C8 (as claimed): an export made after workouts were logged and before any
\* profile was saved produces the report with all the logged rows.
C8_ExportWithoutProfile ==
    (out.op = "export_pdf" /\ user_info = <<>> /\ heap # <<>>) =>
        /\ IsReport(out)
        /\ Tail(out.val.table) = ExpectedRows

\* C8 (amended): without a saved profile the export is refused with the notice
\* "Please save user info first!" and produces no report, whatever was logged;
\* with a profile, unless writing the file raises (an error is flashed then),
\* the report has the profile header and exactly one row per logged entry
\* (category, exercise, duration, calories, date), or the note that nothing is
\* recorded when the store is empty.
C8_ExportNeedsProfile ==
    out.op = "export_pdf" =>
        IF user_info = <<>>
        THEN /\ out.flash = "danger"
             /\ out.msg = "Please save user info first!"
             /\ out.val = NoVal
        ELSE \/ /\ out.flash = "danger"
                /\ out.msg = "Error generating PDF"
                /\ out.val = NoVal
             \/ /\ IsReport(out)
                /\ out.val.title = user_info.name
                /\ out.val.header.bmi = Format1f(user_info.bmi, BmiUnit)
                /\ out.val.header.bmr = Format0f(user_info.bmr, BmrUnit)
                /\ IF heap = <<>>
                   THEN out.val.table = <<>> /\ out.val.note = "No workouts recorded yet."
                   ELSE /\ out.val.note = ""
                        /\ Len(out.val.table) = Len(heap) + 1
                        /\ Tail(out.val.table) = ExpectedRows

\* a report with two rows of one category has been produced
C8_Witness ==
    /\ out.op = "export_pdf"
    /\ IsReport(out)
    /\ Len(out.val.table) = 3
    /\ out.val.table[2][1] = out.val.table[3][1]

---------------------------------------------------------------------------
(* C9 *)

\* ten times the MET value of a category
MetTimesTen(category) ==
    CASE category = "Warm-up" -> 30
      [] category = "Workout" -> 60
      [] category = "Cool-down" -> 25

\* calories = MET * 3.5 * weight / 200 * duration, for calories counted in
\* 1/CaloriesUnit kcal: MET * 3.5 / 200 = MetTimesTen * 7 / 4000
IsCaloriesOf(calories, category, weight, duration) ==
    4000 * calories = CaloriesUnit * MetTimesTen(category) * 7 * weight * duration

\* C9: a new entry's calories are MET[category] * 3.5 * weight / 200 * duration
\* for the weight of the profile at the time of the call (70 without one), and
\* no step changes a field of an entry that is already stored.
C9_CaloriesFixedAtInsertion ==
    [][/\ \A id \in DOMAIN heap : heap'[id] = heap[id]
       /\ AddSucceeded(out') =>
            LET e == heap'[Len(heap')]
            IN  IsCaloriesOf(e.calories, ArgCategory(out'),
                             IF user_info = <<>> THEN 70 ELSE user_info.weight, e.duration)
      ]_vars

\* a profile of 80 kg has just been saved over a store whose first entry was
\* counted at 70 kg
C9_Witness ==
    /\ out.op \in {"save_user_info", "route_save_user_info"}
    /\ user_info # <<>>
    /\ user_info.weight = 80
    /\ \E i \in DOMAIN workouts :
         /\ lists[workouts[i].v] # <<>>
         /\ LET e == heap[lists[workouts[i].v][1]]
            IN  IsCaloriesOf(e.calories, workouts[i].k, 70, e.duration)

---------------------------------------------------------------------------
(* C10 *)

\* the day of the month of an iso date
DayOf(iso) == DigitsValue(SubSeq(iso, 9, 10))

\* the list objects' contents, one after the other
RECURSIVE Flatten(_)
Flatten(qs) == IF qs = <<>> THEN <<>> ELSE Head(qs) \o Flatten(Tail(qs))

\* the entries daily_workouts holds for a category on the days from `day` on,
\* in date order
RECURSIVE DailyFrom(_, _)
DailyFrom(category, day) ==
    IF day > 31 THEN <<>>
    ELSE LET buckets == SelectSeq(daily_workouts, LAMBDA it : DayOf(it.k) = day)
         IN  Flatten([b \in DOMAIN buckets |-> lists[DictGet(buckets[b].v, category)]])
             \o DailyFrom(category, day + 1)

\* C10: every date bucket of daily_workouts has exactly the three category
\* keys, and for each category the entry objects of the buckets, taken in date
\* order, are those of workouts[category] in the same order.
C10_DailyLogMatchesStore ==
    /\ \A b \in DOMAIN daily_workouts :
         /\ Len(daily_workouts[b].v) = 3
         /\ DictKeys(daily_workouts[b].v) = {"Warm-up", "Workout", "Cool-down"}
    /\ \A i \in DOMAIN ThreeCategories :
         DailyFrom(ThreeCategories[i], 1) = lists[DictGet(workouts, ThreeCategories[i])]

\* a category holds two entries, logged on two dates
C10_Witness ==
    /\ Len(daily_workouts) = 2
    /\ \E i \in DOMAIN workouts :
         /\ Len(lists[workouts[i].v]) = 2
         /\ \A b \in DOMAIN daily_workouts :
              Len(lists[DictGet(daily_workouts[b].v, workouts[i].k)]) = 1

====
